---- MODULE Spec2Model ----
(***************************************************************************)
(* State-machine model of the IBKR equity execution engine                 *)
(* (src/IBKR_execution.py): IBKREquityExecutionEngine.run, its helpers,    *)
(* and main_execution, run against a broker whose positions, orders,       *)
(* prices, account summary and daily PnL are the environment.              *)
(*                                                                         *)
(* Units.  Money and prices are integers in mils (1/1000 dollar), so that  *)
(* the mid of two cent prices is exact.  Fractions of RiskConfig are in    *)
(* 1/10000 (0.005 is 50); a risk budget is kept as mils * 10000, i.e. the   *)
(* product before the division, so that comparisons are exact.            *)
(* An optional value (Python None or a value) is the empty set or a        *)
(* singleton.                                                              *)
(***************************************************************************)
EXTENDS Integers, Sequences, FiniteSets, TLC

(***************************************************************************)
(* Bounds of the exploration.                                              *)
(***************************************************************************)
MaxRuns == 2

(***************************************************************************)
(* RiskConfig (fractions in 1/10000) and module configuration.             *)
(***************************************************************************)
per_trade_risk_pct == 50
per_day_risk_pct == 100
max_open_orders == 3
min_order_age_seconds == 3600
trail_pct == 200
entry_qty == 2
preflight_stop_pct == 400
trail_tif == "GTC"

EXECUTE_TRADES_DEFAULT == TRUE
ALLOW_EXITS_WHEN_KILLED == TRUE

(***************************************************************************)
(* Small universes for the environment.                                    *)
(***************************************************************************)
Symbols == {"AAA", "BBB"}
Conids == {101, 102}
ConidOf(sym) == IF sym = "AAA" THEN 101 ELSE 102

None == {}
Some(v) == {v}
IsNone(o) == o = {}
Val(o) == CHOOSE v \in o : TRUE

\* market-data snapshots: a field is 0 when absent, negative when the
\* broker reports a non-positive placeholder
TkNone == [bid |-> 0, ask |-> 0, last |-> 0, close |-> 0]
TkFlat == [bid |-> 49990, ask |-> 50010, last |-> 50100, close |-> 49000]
TkUpHalf == [bid |-> 0, ask |-> 50010, last |-> 50250, close |-> 49000]
TkUpFive == [bid |-> 0 - 1, ask |-> 0 - 1, last |-> 0, close |-> 52500]
Tickers == {TkFlat, TkUpHalf, TkUpFive}

\* accountSummary rows: value is "" (empty), text (not a number) or a number
AcctRow(tag, kind, num) == [tag |-> tag, kind |-> kind, num |-> num]
AcctOk == << AcctRow("NetLiquidation", "num", 12000000),
             AcctRow("BuyingPower", "num", 10000000),
             AcctRow("AvailableFunds", "num", 2500000) >>
AcctFallbackLow == << AcctRow("BuyingPower", "text", 0),
                      AcctRow("AvailableFunds", "num", 500000) >>
AcctMissing == << AcctRow("BuyingPower", "empty", 0),
                  AcctRow("NetLiquidation", "num", 12000000) >>
AcctDeficit == << AcctRow("AvailableFunds", "num", 0 - 2000000) >>
AcctSummaries == {AcctOk, AcctFallbackLow, AcctMissing, AcctDeficit}

\* dailyPnL of the PnL subscription: None while no value has arrived
DailyPnLs == {None, Some(0), Some(0 - 50000), Some(0 - 150000)}

\* con_id column values of a signal row
RawInt(n) == [kind |-> "int", v |-> n]
RawNaN == [kind |-> "nan", v |-> 0]
RawNull == [kind |-> "none", v |-> 0]
RawStrInt(n) == [kind |-> "str_int", v |-> n]
RawStrFloat(n) == [kind |-> "str_float", v |-> n]
RawStrBlank == [kind |-> "str_blank", v |-> 0]
RawStrBad == [kind |-> "str_bad", v |-> 0]

SignalRow(ts, sig, raw) == [timestamp |-> ts, trade_signal |-> sig, con_id |-> raw]

\* contents of stock_execution_signals_5m for one symbol, in insertion order
SignalTables(sym) ==
  { << >>,
    << SignalRow(1, TRUE, RawInt(ConidOf(sym))) >>,
    << SignalRow(1, TRUE, RawInt(ConidOf(sym))), SignalRow(2, FALSE, RawInt(ConidOf(sym))) >>,
    << SignalRow(1, FALSE, RawInt(ConidOf(sym))), SignalRow(2, TRUE, RawNaN) >> }

Working == {"Submitted", "PreSubmitted", "ApiPending"}

(***************************************************************************)
(* Pure helpers.                                                           *)
(***************************************************************************)
\* Python round(x, 0) of the non-negative rational n/d, ties to even (the
\* result of round(px * 1.002, 2) in floats for the prices explored)
RoundHalfEven(n, d) ==
  LET q == n \div d
      r == n % d
  IN IF 2 * r < d THEN q
     ELSE IF 2 * r > d THEN q + 1
     ELSE IF q % 2 = 0 THEN q ELSE q + 1

\* faulty variant of BuyLimitPx: the limit is the mark, without the cushion
BuyLimitPxNoCushion(px) == RoundHalfEven(px * 1000, 10000) * 10

\* round(px * 1.002, 2) and round(px * 0.998, 2), px and result in mils
BuyLimitPx(px) == RoundHalfEven(px * 1002, 10000) * 10
SellLimitPx(px) == RoundHalfEven(px * 998, 10000) * 10

\* faulty variant of MarkPrice: the last trade is preferred to the mid
MarkPriceLastFirst(t) ==
  IF t.last > 0 THEN Some(t.last)
  ELSE IF t.bid > 0 /\ t.ask > 0 THEN Some((t.bid + t.ask) \div 2)
  ELSE IF t.close > 0 THEN Some(t.close)
  ELSE None

\* get_mark_price_snapshot on the ticker t the broker filled in
MarkPrice(t) ==
  LET bid == IF t.bid # 0 /\ t.bid > 0 THEN Some(t.bid) ELSE None
      ask == IF t.ask # 0 /\ t.ask > 0 THEN Some(t.ask) ELSE None
      lst == IF t.last # 0 /\ t.last > 0 THEN Some(t.last) ELSE None
      cls == IF t.close # 0 /\ t.close > 0 THEN Some(t.close) ELSE None
  IN IF ~IsNone(bid) /\ ~IsNone(ask) THEN Some((Val(bid) + Val(ask)) \div 2)
     ELSE IF ~IsNone(lst) THEN lst
     ELSE IF ~IsNone(cls) THEN cls
     ELSE None

\* _entry_from_position
EntryFromPosition(p) == IF p.avgCost > 0 THEN Some(p.avgCost) ELSE None

\* ret_pct >= tenths/10 for ret_pct = (mark - entry) / entry * 100, entry > 0
RetPctAtLeast(mark, entry, tenths) == (mark - entry) * 1000 >= tenths * entry

\* _safe_int on a con_id column value
SafeInt(raw) ==
  CASE raw.kind = "int" -> Some(raw.v)
    [] raw.kind = "float" -> Some(raw.v)
    [] raw.kind = "str_int" -> Some(raw.v)
    [] raw.kind = "str_float" -> Some(raw.v)
    [] OTHER -> None

\* load_latest_signal: WHERE trade_signal = TRUE ORDER BY timestamp DESC LIMIT 1
LoadLatestSignal(table) ==
  LET hits == {i \in DOMAIN table : table[i].trade_signal = TRUE}
  IN IF hits = {} THEN None
     ELSE Some(table[CHOOSE i \in hits : \A j \in hits : table[j].timestamp <= table[i].timestamp])

\* the acct dict of run(): rows with a falsy or non-numeric value are skipped
AcctGet(rows, tag) ==
  LET hits == {i \in DOMAIN rows : rows[i].tag = tag /\ rows[i].kind = "num"}
  IN IF hits = {} THEN None
     ELSE Some(rows[CHOOSE i \in hits : \A j \in hits : j <= i].num)

\* acct.get("BuyingPower", acct.get("AvailableFunds", 0.0))
BuyingPower(rows) ==
  IF ~IsNone(AcctGet(rows, "BuyingPower")) THEN Val(AcctGet(rows, "BuyingPower"))
  ELSE IF ~IsNone(AcctGet(rows, "AvailableFunds")) THEN Val(AcctGet(rows, "AvailableFunds"))
  ELSE 0

\* budgets, in mils * 10000
MaxTradeRisk(rows) == BuyingPower(rows) * per_trade_risk_pct
MaxDayRisk(rows) == BuyingPower(rows) * per_day_risk_pct

\* dollar_risk of the preflight, in mils * 10000:
\* (entry_price - entry_price * (1 - preflight_stop_pct)) * qty
DollarRisk(entry_price, qty) ==
  (entry_price * 10000 - entry_price * (10000 - preflight_stop_pct)) * qty

(***************************************************************************)
(* Orders and trades.                                                      *)
(***************************************************************************)
Order(action, orderType, qty, lmt, aux, trailing, tif, outsideRth) ==
  [action |-> action, orderType |-> orderType, totalQuantity |-> qty,
   lmtPrice |-> lmt, auxPrice |-> aux, trailingPercent |-> trailing,
   tif |-> tif, outsideRth |-> outsideRth]

MarketOrder(action, qty) == Order(action, "MKT", qty, None, None, None, "", FALSE)
LimitOrder(action, qty, px) == Order(action, "LMT", qty, Some(px), None, None, "", FALSE)
StopOrder(action, qty, px) == Order(action, "STP", qty, None, Some(px), None, "", FALSE)
\* faulty variant of TrailOrder: twice the configured trailing percentage
TrailOrderWide(qty) ==
  Order("SELL", "TRAIL", qty, None, None, Some(2 * trail_pct), trail_tif, FALSE)

\* Order(action="SELL", orderType="TRAIL", ...); trailingPercent in 1/10000
TrailOrder(qty) == Order("SELL", "TRAIL", qty, None, None, Some(trail_pct), trail_tif, FALSE)

Trade(id, conid, order, status) ==
  [orderId |-> id, conId |-> conid, order |-> order, status |-> status]

\* _is_entry_order_trade
IsEntryOrderTrade(t) ==
  IF t.order.orderType = "TRAIL" THEN FALSE
  ELSE IF t.order.action # "BUY" THEN FALSE
  ELSE TRUE

\* _open_trades_for_conid, as the set of indices into tr
OpenTradesForConid(tr, conid) ==
  {i \in DOMAIN tr : tr[i].conId = conid /\ tr[i].status \in Working}

HasWorkingBreakevenStop(tr, conid) ==
  \E i \in OpenTradesForConid(tr, conid) :
     tr[i].order.action = "SELL" /\ tr[i].order.orderType \in {"STP", "STOP"}

\* faulty variant of HasWorkingScaleoutSell: market sells are not seen
HasWorkingLimitSell(tr, conid) ==
  \E i \in OpenTradesForConid(tr, conid) :
     tr[i].order.action = "SELL" /\ tr[i].order.orderType = "LMT"

HasWorkingScaleoutSell(tr, conid) ==
  \E i \in OpenTradesForConid(tr, conid) :
     tr[i].order.action = "SELL" /\ tr[i].order.orderType \in {"MKT", "LMT"}

HasWorkingTrailingSell(tr, conid) ==
  \E i \in DOMAIN tr :
     /\ tr[i].status \in Working
     /\ tr[i].order.orderType = "TRAIL"
     /\ tr[i].order.action = "SELL"
     /\ tr[i].conId = conid

\* faulty variant of OpenEntryTrades: only status Submitted counts as open
OpenEntryTradesSubmittedOnly(tr) ==
  {i \in DOMAIN tr : tr[i].status = "Submitted" /\ IsEntryOrderTrade(tr[i])}

\* open_entry_trades of run(), as the set of indices into tr
OpenEntryTrades(tr) ==
  {i \in DOMAIN tr : tr[i].status \in Working /\ IsEntryOrderTrade(tr[i])}

\* faulty variant of AlreadyLongConid: a single share does not count as long
AlreadyLongMoreThanOne(ps, conid) ==
  \E i \in DOMAIN ps : ps[i].conId = conid /\ ps[i].position > 1

\* _already_long_conid over the positions list ps
AlreadyLongConid(ps, conid) ==
  \E i \in DOMAIN ps : ps[i].conId = conid /\ ps[i].position > 0

\* the min-order-age loop of run() over open_entry_trades
MinOrderAgeHit(tr, ost, t) ==
  \E i \in OpenEntryTrades(tr) :
     /\ tr[i].orderId \in DOMAIN ost
     /\ t - ost[tr[i].orderId] < min_order_age_seconds

\* faulty variant of TrackTrade: the map is rebuilt with the new entry only
TrackTradeReset(ost, id, t) == [x \in {id} |-> t]

\* _track_trade: order_submit_time[orderId] = now
TrackTrade(ost, id, t) ==
  [x \in (DOMAIN ost) \cup {id} |-> IF x = id THEN t ELSE ost[x]]

(***************************************************************************)
(* State.                                                                  *)
(***************************************************************************)
VARIABLES
  positions,    \* broker: ib.positions(), Seq of [conId, position, avgCost], all STK
  trades,       \* broker: ib.trades(), Seq of [orderId, conId, order, status]
  tick,         \* broker: market data per conId, [bid, ask, last, close]
  env,          \* broker: [rth, acct, pnl] session, accountSummary rows, dailyPnL
  now,          \* wall clock, seconds
  cfg,          \* [execute_trades_default, allow_exits_when_killed]
  eng,          \* the engine instance of the current main_execution
  batch,        \* main_execution: [symbols, i, active, raised, dispatched]
  last,         \* history: the run() call that has just ended, else void
  prev,         \* history: the run() call before it in the same batch
  submitted,    \* history: orderId -> the time the order reached the broker
  runCalls,     \* history: number of run() calls
  summaryLines, \* history: number of [SUMMARY] lines printed
  snap          \* the latest get_mark_price_snapshot call taken on its own, else void

vars == << positions, trades, tick, env, now, cfg, eng, batch, last, prev,
           submitted, runCalls, summaryLines, snap >>

(***************************************************************************)
(* The inputs of one run() call that are not broker state: the signal      *)
(* table of the symbol, and the anomalies of the broker calls of this run: *)
(* a call site that raises, or a price snapshot that comes back empty      *)
(* after the wait.  A site is << name, position index or 0 >>.             *)
(***************************************************************************)
Site(name, i) == << name, i >>
Anomaly(site, kind) == [site |-> site, kind |-> kind]

RaiseSiteNames == {"connect", "accountSummary", "reqPnL", "liq_positions",
                   "trades", "db", "long_positions", "pre_px", "buy_px",
                   "buy_place", "etrail_place", "pm_positions"}
PosRaiseSiteNames == {"liq_place", "pm_px", "be_place", "tp1_px", "tp1_place",
                      "trail_place"}
\* the call sites of ib.placeOrder
PlaceSiteNames == {"buy_place", "etrail_place", "liq_place", "be_place",
                   "tp1_place", "trail_place"}

\* the anomalies a run() over n positions can meet
Anomalies(n) ==
  {Anomaly(Site(s, 0), "raise") : s \in RaiseSiteNames}
  \cup {Anomaly(Site(s, i), "raise") : s \in PosRaiseSiteNames, i \in 1 .. n}
  \cup {Anomaly(Site(s, 0), "nodata") : s \in {"pre_px", "buy_px"}}
  \cup {Anomaly(Site(s, i), "nodata") : s \in {"pm_px", "tp1_px"}, i \in 1 .. n}
  \cup {Anomaly(Site(s, 0), "noid") : s \in {"buy_place", "etrail_place"}}
  \cup {Anomaly(Site(s, i), "noid") : s \in PosRaiseSiteNames \cap PlaceSiteNames, i \in 1 .. n}

\* at most one anomaly in a run()
AnomalySets(n) == {{}} \cup {{a} : a \in Anomalies(n)}

Raises(in, site) == Anomaly(site, "raise") \in in.anom
NoData(in, site) == Anomaly(site, "nodata") \in in.anom
\* trade.order.orderId of the trade placed at the site cannot be read back
NoId(in, site) == Anomaly(site, "noid") \in in.anom

(***************************************************************************)
(* The context threaded through one run(): the broker's trade list and the *)
(* engine fields the run changes, the control state (exc: an exception is  *)
(* propagating; ret: run() has returned early), and what the run did.      *)
(***************************************************************************)
ZeroStats == [signal |-> 0, entry |-> 0, be |-> 0, tp1 |-> 0,
              trail_ensure |-> 0, skips_no_price |-> 0, errs |-> 0]

\* _reset_stats and the locals of run() before the try block
Ctx0(e) ==
  [tr |-> trades, ost |-> e.order_submit_time, pnl_sub |-> e.pnl_sub,
   pnl_reqs |-> e.pnl_reqs, connected |-> e.connected, pm_logged |-> e.pm_logged,
   stats |-> ZeroStats, exc |-> FALSE, ret |-> FALSE, rv |-> None,
   allow_entries |-> FALSE, allow_exits |-> FALSE,
   buying_power |-> 0, max_trade_risk |-> 0, max_day_risk |-> 0,
   budgeted |-> FALSE, kill |-> "not_evaluated", conid |-> None, pmRan |-> FALSE,
   placed |-> << >>, hit |-> {}]

\* _inc
Inc(c, k) == [c EXCEPT !.stats[k] = @ + 1]

\* log_error
LogError(c) == Inc(c, "errs")

Throw(c, site) == [c EXCEPT !.exc = TRUE, !.hit = @ \cup {Anomaly(site, "raise")}]

\* ib.placeOrder followed by _track_trade; the new trade is working
PlaceOrder(c, in, site, tag, conid, order) ==
  IF Raises(in, site) THEN Throw(c, site)
  ELSE LET id == Len(c.tr) + 1
       IN [c EXCEPT !.tr = Append(@, Trade(id, conid, order, "Submitted")),
                    !.ost = IF NoId(in, site) THEN @ ELSE TrackTrade(@, id, now),
                    !.hit = IF NoId(in, site) THEN @ \cup {Anomaly(site, "noid")} ELSE @,
                    !.placed = Append(@, [tag |-> tag, orderId |-> id]),
                    !.rv = Some(id)]

\* faulty variant of GetMarkPriceSnapshot: an empty snapshot is not noticed
GetMarkPriceStale(in, site, conid) == MarkPrice(tick[conid])

\* the mark the snapshot at this site resolves to (Raises is checked by the caller)
GetMarkPriceSnapshot(in, site, conid) ==
  IF NoData(in, site) THEN MarkPrice(TkNone) ELSE MarkPrice(tick[conid])

NoteNoData(c, in, site) ==
  IF NoData(in, site) THEN [c EXCEPT !.hit = @ \cup {Anomaly(site, "nodata")}] ELSE c

place_market_sell(c, in, site, tag, conid, qty, allow) ==
  IF ~allow THEN [c EXCEPT !.rv = None]
  ELSE PlaceOrder(c, in, site, tag, conid, MarketOrder("SELL", qty))

place_trailing_stop(c, in, site, tag, conid, qty, allow) ==
  IF ~allow THEN [c EXCEPT !.rv = None]
  ELSE PlaceOrder(c, in, site, tag, conid, TrailOrder(qty))

place_breakeven_stop(c, in, site, tag, conid, qty, stop_price, allow) ==
  IF ~allow THEN [c EXCEPT !.rv = None]
  ELSE PlaceOrder(c, in, site, tag, conid,
                  [StopOrder("SELL", qty, stop_price) EXCEPT !.outsideRth = TRUE])

\* the BUY order place_buy_entry builds from the session and the mark px
BuyEntryOrder(is_rth, qty, px) ==
  IF is_rth THEN MarketOrder("BUY", qty)
  ELSE [LimitOrder("BUY", qty, BuyLimitPx(px)) EXCEPT !.outsideRth = TRUE]

place_buy_entry(c, in, conid, qty, allow) ==
  IF ~allow THEN [c EXCEPT !.rv = None]
  ELSE IF env.rth
    THEN PlaceOrder(c, in, Site("buy_place", 0), "entry", conid, BuyEntryOrder(TRUE, qty, 0))
  ELSE IF Raises(in, Site("buy_px", 0)) THEN Throw(c, Site("buy_px", 0))
  ELSE LET px == GetMarkPriceSnapshot(in, Site("buy_px", 0), conid)
           c1 == NoteNoData(c, in, Site("buy_px", 0))
       IN IF IsNone(px) \/ Val(px) <= 0
            THEN [Inc(c1, "skips_no_price") EXCEPT !.rv = None]
          ELSE PlaceOrder(c1, in, Site("buy_place", 0), "entry", conid,
                          BuyEntryOrder(FALSE, qty, Val(px)))

\* the SELL 1 order place_sell_scaleout_1 builds
ScaleoutOrder(is_rth, px) ==
  IF is_rth THEN MarketOrder("SELL", 1)
  ELSE [LimitOrder("SELL", 1, SellLimitPx(px)) EXCEPT !.outsideRth = TRUE]

place_sell_scaleout_1(c, in, i, conid, allow) ==
  IF ~allow THEN [c EXCEPT !.rv = None]
  ELSE IF env.rth
    THEN PlaceOrder(c, in, Site("tp1_place", i), "tp1", conid, ScaleoutOrder(TRUE, 0))
  ELSE IF Raises(in, Site("tp1_px", i)) THEN Throw(c, Site("tp1_px", i))
  ELSE LET px == GetMarkPriceSnapshot(in, Site("tp1_px", i), conid)
           c1 == NoteNoData(c, in, Site("tp1_px", i))
       IN IF IsNone(px) \/ Val(px) <= 0
            THEN [Inc(c1, "skips_no_price") EXCEPT !.rv = None]
          ELSE PlaceOrder(c1, in, Site("tp1_place", i), "tp1", conid,
                          ScaleoutOrder(FALSE, Val(px)))

(***************************************************************************)
(* Daily-loss kill switch.                                                 *)
(***************************************************************************)
\* faulty variant of get_daily_pnl: a subscription is requested at every read
get_daily_pnl_resubscribe(c, in) ==
  IF Raises(in, Site("reqPnL", 0))
    THEN [c EXCEPT !.rv = None, !.hit = @ \cup {Anomaly(Site("reqPnL", 0), "raise")}]
  ELSE [c EXCEPT !.pnl_sub = TRUE, !.pnl_reqs = @ + 1, !.rv = env.pnl]

\* get_daily_pnl: every exception is caught and gives None; rv is the result
get_daily_pnl(c, in) ==
  IF c.pnl_sub
    THEN [c EXCEPT !.rv = env.pnl]
  ELSE IF Raises(in, Site("reqPnL", 0))
    THEN [c EXCEPT !.rv = None, !.hit = @ \cup {Anomaly(Site("reqPnL", 0), "raise")}]
  ELSE [c EXCEPT !.pnl_sub = TRUE, !.pnl_reqs = @ + 1, !.rv = env.pnl]

\* one iteration of the loop of close_all_stock_positions: try / except / continue
LiquidateOne(c, in, i) ==
  LET p == positions[i]
      r == IF p.position > 0
             THEN place_market_sell(c, in, Site("liq_place", i), "liq", p.conId, p.position, TRUE)
           ELSE c
  IN IF r.exc THEN LogError([r EXCEPT !.exc = FALSE]) ELSE r

RECURSIVE LiquidateLoop(_, _, _)
LiquidateLoop(c, in, i) ==
  IF i > Len(positions) THEN c ELSE LiquidateLoop(LiquidateOne(c, in, i), in, i + 1)

close_all_stock_positions(c, in, allow) ==
  IF ~allow THEN c
  ELSE IF Raises(in, Site("liq_positions", 0)) THEN Throw(c, Site("liq_positions", 0))
  ELSE LiquidateLoop(c, in, 1)

\* faulty variant of DailyLossBreach: a loss equal to the ceiling is allowed
DailyLossBreachStrict(daily_pnl, max_day_risk) == daily_pnl * 10000 < 0 - max_day_risk

\* daily_pnl <= -float(max_day_risk), max_day_risk in mils * 10000
DailyLossBreach(daily_pnl, max_day_risk) == daily_pnl * 10000 <= 0 - max_day_risk

\* enforce_daily_loss_killswitch; kill is "allow" (True) or "deny" (False)
enforce_daily_loss_killswitch(c, in, max_day_risk, allow_exits) ==
  LET c1 == get_daily_pnl(c, in)
      daily_pnl == c1.rv
  IN IF IsNone(daily_pnl) THEN [c1 EXCEPT !.kill = "allow"]
     ELSE IF DailyLossBreach(Val(daily_pnl), max_day_risk)
       THEN [close_all_stock_positions(c1, in, allow_exits) EXCEPT !.kill = "deny"]
     ELSE [c1 EXCEPT !.kill = "allow"]

(***************************************************************************)
(* The stages of run(), in order.  A stage is skipped once an exception is *)
(* propagating or run() has returned.                                      *)
(***************************************************************************)
Stopped(c) == c.exc \/ c.ret

\* connect() and the allow flags
StageConnect(c, in) ==
  LET c1 == IF c.connected THEN c
            ELSE IF Raises(in, Site("connect", 0)) THEN Throw(c, Site("connect", 0))
            ELSE [c EXCEPT !.connected = TRUE]
      allow_orders == cfg.execute_trades_default
  IN IF c1.exc THEN c1
     ELSE [c1 EXCEPT !.allow_exits = allow_orders \/ cfg.allow_exits_when_killed,
                     !.allow_entries = allow_orders]

\* buying power and the two budgets
StageBudgets(c, in) ==
  IF Stopped(c) THEN c
  ELSE IF Raises(in, Site("accountSummary", 0)) THEN Throw(c, Site("accountSummary", 0))
  ELSE [c EXCEPT !.budgeted = TRUE,
                 !.buying_power = BuyingPower(env.acct),
                 !.max_trade_risk = MaxTradeRisk(env.acct),
                 !.max_day_risk = MaxDayRisk(env.acct)]

\* allow_entries = bool(allow_entries) and self.enforce_daily_loss_killswitch(...)
StageKillSwitch(c, in) ==
  IF Stopped(c) THEN c
  ELSE IF ~c.allow_entries THEN c
  ELSE LET k == enforce_daily_loss_killswitch(c, in, c.max_day_risk, c.allow_exits)
       IN [k EXCEPT !.allow_entries = (k.kill = "allow")]

\* open-entry-order cap and minimum order age
StageOrderGates(c, in) ==
  IF Stopped(c) THEN c
  ELSE IF Raises(in, Site("trades", 0)) THEN Throw(c, Site("trades", 0))
  ELSE LET capHit == Cardinality(OpenEntryTrades(c.tr)) >= max_open_orders
           ageHit == MinOrderAgeHit(c.tr, c.ost, now)
       IN [c EXCEPT !.allow_entries = @ /\ ~capHit /\ ~ageHit]

\* entry and the trailing stop placed with it, after the preflight passed
EntryAndTrail(c, in, conid) ==
  LET qty == entry_qty
      b == place_buy_entry(c, in, conid, qty, c.allow_entries)
  IN IF b.exc \/ IsNone(b.rv) THEN b
     ELSE LET b1 == Inc(b, "entry")
          IN IF ~HasWorkingTrailingSell(b1.tr, conid)
               THEN place_trailing_stop(b1, in, Site("etrail_place", 0), "entry_trail",
                                        conid, qty, b1.allow_exits)
             ELSE b1

\* the PREFLIGHT block: price, risk math, then the entry
Preflight(c, in, conid) ==
  IF Raises(in, Site("pre_px", 0)) THEN Throw(c, Site("pre_px", 0))
  ELSE LET entry_price == GetMarkPriceSnapshot(in, Site("pre_px", 0), conid)
           c1 == NoteNoData(c, in, Site("pre_px", 0))
       IN IF IsNone(entry_price) \/ Val(entry_price) <= 0
            THEN [Inc(c1, "skips_no_price") EXCEPT !.ret = TRUE]
          ELSE IF DollarRisk(Val(entry_price), entry_qty) > c1.max_trade_risk
            THEN [c1 EXCEPT !.ret = TRUE]
          ELSE EntryAndTrail(c1, in, conid)

\* load signal, resolve the conid, already-long and allow_entries checks
StageSignal(c, in) ==
  IF Stopped(c) THEN c
  ELSE LET failed == Raises(in, Site("db", 0))
           c1 == IF failed
                   THEN LogError([c EXCEPT !.hit = @ \cup {Anomaly(Site("db", 0), "raise")}])
                 ELSE c
           df == IF failed THEN None ELSE LoadLatestSignal(in.sig)
       IN IF IsNone(df) THEN c1
          ELSE LET c2 == Inc(c1, "signal")
                   conid == SafeInt(Val(df).con_id)
               IN IF IsNone(conid) THEN [LogError(c2) EXCEPT !.ret = TRUE]
                  ELSE LET c3 == [c2 EXCEPT !.conid = conid]
                       IN IF Raises(in, Site("long_positions", 0))
                            THEN Throw(c3, Site("long_positions", 0))
                          ELSE IF AlreadyLongConid(positions, Val(conid)) THEN c3
                          ELSE IF ~c3.allow_entries THEN c3
                          ELSE Preflight(c3, in, Val(conid))

(***************************************************************************)
(* Position management.                                                    *)
(***************************************************************************)
\* faulty variant of ScaleoutQtyOk: any long position is scaled out
ScaleoutQtyAny(qty) == qty >= 1

\* the quantity floor of the +1.0% rule: qty >= 2
ScaleoutQtyOk(qty) == qty >= 2

\* the try body of the loop for position i
ManagePosition(c, in, i) ==
  LET p == positions[i]
      qty == p.position
      conid == p.conId
      entry == EntryFromPosition(p)
  IN IF qty <= 0 THEN c
     ELSE IF IsNone(entry) \/ Val(entry) <= 0 THEN c
     ELSE IF Raises(in, Site("pm_px", i)) THEN Throw(c, Site("pm_px", i))
     ELSE
       LET mark == GetMarkPriceSnapshot(in, Site("pm_px", i), conid)
           c0 == NoteNoData(c, in, Site("pm_px", i))
       IN IF IsNone(mark) \/ Val(mark) <= 0 THEN c0
          ELSE
            LET c1 == IF RetPctAtLeast(Val(mark), Val(entry), 5)
                         /\ ~HasWorkingBreakevenStop(c0.tr, conid)
                        THEN place_breakeven_stop(Inc(c0, "be"), in, Site("be_place", i), "be",
                                                  conid, qty, Val(entry), c0.allow_exits)
                      ELSE c0
                c2 == IF c1.exc THEN c1
                      ELSE IF RetPctAtLeast(Val(mark), Val(entry), 10) /\ ScaleoutQtyOk(qty)
                              /\ ~HasWorkingScaleoutSell(c1.tr, conid)
                        THEN place_sell_scaleout_1(Inc(c1, "tp1"), in, i, conid, c1.allow_exits)
                      ELSE c1
                c3 == IF c2.exc THEN c2
                      ELSE IF ~HasWorkingTrailingSell(c2.tr, conid)
                        THEN place_trailing_stop(Inc(c2, "trail_ensure"), in,
                                                 Site("trail_place", i), "trail",
                                                 conid, qty, c2.allow_exits)
                      ELSE c2
            IN c3

\* faulty variant of ManageOne: the exception is not caught in the loop
ManageOneNoCatch(c, in, i) == ManagePosition(c, in, i)

\* try / except Exception: log_error("PM_ERR"); continue
ManageOne(c, in, i) ==
  LET r == ManagePosition(c, in, i)
  IN IF r.exc THEN LogError([r EXCEPT !.exc = FALSE]) ELSE r

RECURSIVE ManageLoop(_, _, _)
ManageLoop(c, in, i) ==
  IF i > Len(positions) THEN c ELSE ManageLoop(ManageOne(c, in, i), in, i + 1)

\* for p in self.get_positions(): ...; then _pm_logged_this_cycle = True
StagePositions(c, in) ==
  IF Stopped(c) THEN c
  ELSE IF Raises(in, Site("pm_positions", 0)) THEN Throw(c, Site("pm_positions", 0))
  ELSE [ManageLoop(c, in, 1) EXCEPT !.pmRan = TRUE, !.pm_logged = TRUE]

(***************************************************************************)
(* run(symbol).                                                            *)
(***************************************************************************)
\* the try block of run()
RunBody(in, e) ==
  StagePositions(
    StageSignal(
      StageOrderGates(
        StageKillSwitch(
          StageBudgets(
            StageConnect(Ctx0(e), in), in), in), in), in), in)

\* faulty variant of SummaryLinesOfRun: no summary when the try block raised
SummaryLinesUnlessRaised(c) == IF c.exc THEN 0 ELSE 1

\* the finally block of run(): the number of summary lines printed for the
\* outcome c of the try block
SummaryLinesOfRun(c) == 1

\* whether the exception of the try block leaves run()
RunRaises(c) == c.exc

(***************************************************************************)
(* Engine instance and main_execution.                                     *)
(***************************************************************************)
\* IBKREquityExecutionEngine.__init__; stats and _run_symbol are rewritten at
\* the head of every run() and live in the record of the run
NewEngine ==
  [order_submit_time |-> << >>, pnl_sub |-> FALSE, pnl_reqs |-> 0,
   connected |-> FALSE, pm_logged |-> FALSE]

\* no snapshot has been taken on its own
NoSnap == [valid |-> FALSE, conId |-> 0, ticker |-> TkNone, px |-> None]

NoBatch == [symbols |-> << >>, i |-> 1, pc |-> "run", active |-> FALSE,
            raised |-> FALSE, dispatched |-> << >>]

SymbolLists == { << "AAA" >>, << "AAA", "BBB" >> }

SigTrue(sym) == << SignalRow(1, TRUE, RawInt(ConidOf(sym))) >>

\* the inputs explored for one run(): every signal table without anomaly,
\* and every single anomaly with no signal row and with a true signal row
RunInputs(sym) ==
  {[sig |-> s, anom |-> {}] : s \in SignalTables(sym)}
  \cup {[sig |-> SigTrue(sym), anom |-> a] : a \in AnomalySets(Len(positions))}

\* the inputs of the next run() of the batch, none when no run() is due
DueRunInputs ==
  IF batch.active /\ batch.pc = "run" /\ batch.i <= Len(batch.symbols)
    THEN RunInputs(batch.symbols[batch.i]) ELSE {}

\* history record of a run() call
RunRecord(sym, in, c) ==
  [valid |-> TRUE, sym |-> sym, sig |-> in.sig, hit |-> c.hit,
   raised |-> RunRaises(c), returned |-> c.ret, stats |-> c.stats,
   placed |-> c.placed, budgeted |-> c.budgeted, kill |-> c.kill,
   buying_power |-> c.buying_power, max_trade_risk |-> c.max_trade_risk,
   max_day_risk |-> c.max_day_risk, allow_entries |-> c.allow_entries,
   allow_exits |-> c.allow_exits, conid |-> c.conid, pmRan |-> c.pmRan,
   summary |-> SummaryLinesOfRun(c)]

NoRun ==
  [valid |-> FALSE, sym |-> "", sig |-> << >>, hit |-> {},
   raised |-> FALSE, returned |-> FALSE, stats |-> ZeroStats,
   placed |-> << >>, budgeted |-> FALSE, kill |-> "not_evaluated",
   buying_power |-> 0, max_trade_risk |-> 0,
   max_day_risk |-> 0, allow_entries |-> FALSE,
   allow_exits |-> FALSE, conid |-> None, pmRan |-> FALSE,
   summary |-> 0]

\* what is kept of the run() call before the latest one
PrevRecord(l) ==
  [valid |-> l.valid, clean |-> l.hit = {}, pmRan |-> l.pmRan,
   pmPlaced |-> \E k \in DOMAIN l.placed : l.placed[k].tag \in {"be", "tp1", "trail"}]

NoPrev == PrevRecord(NoRun)

\* main_execution: eng = IBKREquityExecutionEngine(client_id); _pm_logged_this_cycle = False
StartBatch(syms) ==
  /\ ~batch.active
  /\ runCalls + Len(syms) <= MaxRuns
  /\ eng' = NewEngine
  /\ batch' = [symbols |-> syms, i |-> 1, pc |-> "run", active |-> TRUE,
               raised |-> FALSE, dispatched |-> << >>]
  /\ last' = NoRun
  /\ prev' = NoPrev
  /\ UNCHANGED << positions, trades, tick, env, now, cfg, submitted, runCalls, summaryLines, snap >>

\* one iteration of the loop of main_execution: eng.run(sym); an exception
\* leaving run() leaves the loop and reaches the finally: eng.disconnect()
RunNext(in) ==
  /\ batch.active
  /\ batch.pc = "run"
  /\ batch.i <= Len(batch.symbols)
  /\ \E c \in {RunBody(in, eng)} :
     LET sym == batch.symbols[batch.i]
     IN /\ trades' = c.tr
        /\ eng' = [order_submit_time |-> c.ost, pnl_sub |-> c.pnl_sub,
                   pnl_reqs |-> c.pnl_reqs,
                   connected |-> IF RunRaises(c) THEN FALSE ELSE c.connected,
                   pm_logged |-> c.pm_logged]
        /\ batch' = IF RunRaises(c)
                      THEN [batch EXCEPT !.active = FALSE, !.raised = TRUE,
                                         !.dispatched = Append(@, sym)]
                    ELSE [batch EXCEPT !.pc = "sleep", !.dispatched = Append(@, sym)]
        /\ last' = RunRecord(sym, in, c)
        /\ prev' = prev
        /\ submitted' = [id \in DOMAIN c.tr |->
                            IF id \in DOMAIN submitted THEN submitted[id] ELSE now]
        /\ runCalls' = runCalls + 1
        /\ summaryLines' = summaryLines + SummaryLinesOfRun(c)
  /\ UNCHANGED << positions, tick, env, now, cfg, snap >>

\* the time that can pass between the time.time() reads of two run() calls;
\* it is observable only through the tracked submit time of an open entry order
Elapsed ==
  IF \E i \in OpenEntryTrades(trades) : trades[i].orderId \in DOMAIN eng.order_submit_time
    THEN {0, min_order_age_seconds}
  ELSE {0}

\* time.sleep(0.15) after a run() that returned, then the next symbol
Pace(dt) ==
  /\ batch.active
  /\ batch.pc = "sleep"
  /\ batch' = [batch EXCEPT !.pc = "run", !.i = @ + 1]
  /\ now' = now + dt
  /\ prev' = PrevRecord(last)
  /\ last' = NoRun
  /\ UNCHANGED << positions, trades, tick, env, cfg, eng, submitted, runCalls, summaryLines, snap >>

\* the loop of main_execution is exhausted: finally eng.disconnect()
EndBatch ==
  /\ batch.active
  /\ batch.pc = "run"
  /\ batch.i > Len(batch.symbols)
  /\ batch' = [batch EXCEPT !.active = FALSE]
  /\ eng' = [eng EXCEPT !.connected = FALSE]
  /\ last' = NoRun
  /\ prev' = NoPrev
  /\ UNCHANGED << positions, trades, tick, env, now, cfg, submitted, runCalls, summaryLines, snap >>

(***************************************************************************)
(* Initial states: broker snapshots an engine can be started against.      *)
(***************************************************************************)
Pos(conid, qty, avgCost) == [conId |-> conid, position |-> qty, avgCost |-> avgCost]

Broker(ps, tr) == [positions |-> ps, trades |-> tr]

InitBrokers ==
  { Broker(<< >>, << >>),
    Broker(<< Pos(101, 2, 50000) >>,
           << Trade(1, 101, MarketOrder("BUY", 2), "Filled"),
              Trade(2, 101, TrailOrder(2), "Cancelled") >>),
    Broker(<< Pos(101, 1, 50000), Pos(102, 2, 50000) >>,
           << Trade(1, 101, TrailOrder(1), "Submitted") >>),
    Broker(<< Pos(101, 0, 50000) >>,
           << Trade(1, 101, TrailOrder(2), "PreSubmitted") >>),
    Broker(<< Pos(102, 2, 0) >>,
           << Trade(1, 101, LimitOrder("BUY", 2, 50100), "Submitted"),
              Trade(2, 101, LimitOrder("BUY", 2, 50100), "Submitted"),
              Trade(3, 101, LimitOrder("BUY", 2, 50100), "PreSubmitted") >>) }

Env(rth, acct, pnl) == [rth |-> rth, acct |-> acct, pnl |-> pnl]

\* Market scenarios: price and session vary, the account is healthy.
MarketInits ==
  {[tk |-> tk, env |-> Env(r, AcctOk, Some(0))] : tk \in Tickers, r \in BOOLEAN}

\* Account scenarios: buying power and daily PnL vary, regular session.
AccountInits ==
  {[tk |-> TkUpFive, env |-> Env(TRUE, a, p)] :
     a \in AcctSummaries, p \in {Some(0), Some(0 - 50000)}}
  \cup {[tk |-> TkUpFive, env |-> Env(TRUE, AcctOk, p)] : p \in DailyPnLs}

Cfg(e, a) == [execute_trades_default |-> e, allow_exits_when_killed |-> a]
DefaultCfg == Cfg(EXECUTE_TRADES_DEFAULT, ALLOW_EXITS_WHEN_KILLED)

\* engines constructed with other values of the two flags
OverrideCfgs == {Cfg(FALSE, TRUE), Cfg(FALSE, FALSE), Cfg(TRUE, FALSE)}

\* Override scenarios: a winning position, with and without a breaching loss.
OverrideInits ==
  {[tk |-> TkUpFive, env |-> Env(r, AcctOk, p)] :
     r \in BOOLEAN, p \in {Some(0), Some(0 - 150000)}}

\* the scenarios each configuration is explored with
Scenarios ==
  {[m |-> m, cfg |-> DefaultCfg] : m \in MarketInits \cup AccountInits}
  \cup {[m |-> m, cfg |-> c] : m \in OverrideInits, c \in OverrideCfgs}

Init ==
  /\ \E b \in InitBrokers : positions = b.positions /\ trades = b.trades
  /\ \E s \in Scenarios :
        tick = [c \in Conids |-> s.m.tk] /\ env = s.m.env /\ cfg = s.cfg
  /\ now = 0
  /\ submitted = [id \in DOMAIN trades |-> 0 - min_order_age_seconds]
  /\ eng = NewEngine
  /\ batch = NoBatch
  /\ last = NoRun
  /\ prev = NoPrev
  /\ runCalls = 0
  /\ summaryLines = 0
  /\ snap = NoSnap

Next ==
  \/ \E syms \in SymbolLists : StartBatch(syms)
  \/ \E in \in DueRunInputs : RunNext(in)
  \/ \E dt \in Elapsed : Pace(dt)
  \/ EndBatch

Spec == Init /\ [][Next]_vars

(***************************************************************************)
(* Properties.  They are stated on the state right after a run() call      *)
(* (last.valid), against the broker state that run() started from.         *)
(***************************************************************************)
\* the broker's trade list when the latest run() started
PreTrades == SubSeq(trades, 1, Len(trades) - Len(last.placed))

\* the orders the latest run() submitted under a tag, and their trades
Placed(tag) == {k \in DOMAIN last.placed : last.placed[k].tag = tag}
PlacedTrade(k) == trades[last.placed[k].orderId]

HitRaise(name) == \E a \in last.hit : a.site[1] = name /\ a.kind = "raise"
HitNoData(name) == \E a \in last.hit : a.site[1] = name /\ a.kind = "nodata"

\* the entry gates, as section 4.3 of the specification states them
LatestRow(sig) ==
  sig[CHOOSE i \in DOMAIN sig : \A j \in DOMAIN sig : sig[j].timestamp <= sig[i].timestamp]

SignalGateAllows ==
  /\ last.sig # << >>
  /\ LatestRow(last.sig).trade_signal
  /\ ~IsNone(SafeInt(LatestRow(last.sig).con_id))

GateConid == Val(SafeInt(LatestRow(last.sig).con_id))

KillSwitchBreached ==
  /\ ~IsNone(env.pnl)
  /\ ~HitRaise("reqPnL")
  /\ Val(env.pnl) * 10000 <= 0 - last.max_day_risk

WorkingEntryOrders ==
  {i \in DOMAIN PreTrades : /\ PreTrades[i].status \in Working
                            /\ PreTrades[i].order.action = "BUY"
                            /\ PreTrades[i].order.orderType # "TRAIL"}

CapDenies == Cardinality(WorkingEntryOrders) >= max_open_orders

AgeDenies ==
  \E i \in WorkingEntryOrders :
     now - submitted[PreTrades[i].orderId] < min_order_age_seconds

AlreadyLong(conid) ==
  \E i \in DOMAIN positions : positions[i].conId = conid /\ positions[i].position > 0

PriceDenies(conid) == IsNone(MarkPrice(tick[conid])) \/ HitNoData("pre_px")

RiskDenies(conid) ==
  /\ ~IsNone(MarkPrice(tick[conid]))
  /\ Val(MarkPrice(tick[conid])) * preflight_stop_pct * entry_qty > last.max_trade_risk

NoGateDenies(conid) ==
  /\ ~KillSwitchBreached
  /\ ~CapDenies
  /\ ~AgeDenies
  /\ ~AlreadyLong(conid)
  /\ SignalGateAllows
  /\ ~PriceDenies(conid)
  /\ ~RiskDenies(conid)

\* C1: every run() call returns normally, and a failure of a broker or
\* signal-store call met during the run (connect, accountSummary, trades,
\* positions, price snapshot, placeOrder, signal query) is counted in the
\* error counter of the run's summary.
C1_RunNeverRaises ==
  last.valid =>
    /\ ~last.raised
    /\ ((\E a \in last.hit : a.kind = "raise" /\ a.site[1] # "reqPnL")
          => last.stats.errs >= 1)

\* C2: a main_execution that has ended has dispatched run() for every
\* symbol of its list, in list order, whatever failed in an earlier run.
C2_EverySymbolDispatched ==
  (~batch.active /\ batch.symbols # << >>) => batch.dispatched = batch.symbols

\* C3: every run() call prints exactly one summary line, whether it
\* completed, returned early at a gate, or raised.
C3_OneSummaryLinePerRun ==
  /\ summaryLines = runCalls
  /\ last.valid => last.summary = 1

C3_Witness == last.valid /\ last.raised /\ last.summary = 1 /\ summaryLines = runCalls

PMTags == {"be", "tp1", "trail"}

PMPlacedOn(tag, conid) == {k \in Placed(tag) : PlacedTrade(k).conId = conid}

C5_DenyIsAbsorbing ==
  \A k \in Placed("entry") : NoGateDenies(PlacedTrade(k).conId)

KillSwitchReturned ==
  last.valid /\ last.kill # "not_evaluated" /\ ~HitRaise("liq_positions")

LongPositions == {i \in DOMAIN positions : positions[i].position > 0}

LiquidationsOf(i) ==
  {k \in Placed("liq") : /\ PlacedTrade(k).conId = positions[i].conId
                         /\ PlacedTrade(k).order.action = "SELL"
                         /\ PlacedTrade(k).order.orderType = "MKT"
                         /\ PlacedTrade(k).order.totalQuantity = positions[i].position}

LiquidationFailed(i) == Anomaly(Site("liq_place", i), "raise") \in last.hit

\* C6: the kill switch denies entries and submits one MARKET SELL of the
\* full held quantity for every position with quantity > 0 (whose submission
\* does not fail) exactly when dailyPnL is measurable and
\* dailyPnL <= -maxDayRisk; otherwise it allows entries and submits no order.
C6_KillSwitchDecision ==
  KillSwitchReturned =>
    IF KillSwitchBreached
      THEN /\ last.kill = "deny"
           /\ Placed("entry") = {}
           /\ \A i \in LongPositions :
                 Cardinality(LiquidationsOf(i)) = IF LiquidationFailed(i) THEN 0 ELSE 1
           /\ Cardinality(Placed("liq"))
                = Cardinality({i \in LongPositions : ~LiquidationFailed(i)})
    ELSE last.kill = "allow" /\ Placed("liq") = {}

C6_Witness ==
  /\ KillSwitchReturned
  /\ KillSwitchBreached
  /\ Cardinality(LongPositions) = 2
  /\ Cardinality(Placed("liq")) = 2

\* C7: every scale-out SELL submitted is for quantity 1 and for a position
\* that holds at least 2; a position of quantity 1 gets none, whatever its
\* return.
C7_ScaleoutGuard ==
  \A k \in Placed("tp1") :
     /\ PlacedTrade(k).order.action = "SELL"
     /\ PlacedTrade(k).order.totalQuantity = 1
     /\ \E i \in DOMAIN positions : positions[i].conId = PlacedTrade(k).conId
     /\ \A i \in DOMAIN positions :
           positions[i].conId = PlacedTrade(k).conId => positions[i].position >= 2

\* a position of quantity 1 that is up 5% was managed in the run that also
\* scaled out another position
C7_Witness ==
  /\ last.valid /\ last.pmRan /\ last.hit = {}
  /\ Placed("tp1") # {}
  /\ \E i \in DOMAIN positions :
        /\ positions[i].position = 1
        /\ positions[i].avgCost > 0
        /\ ~IsNone(MarkPrice(tick[positions[i].conId]))
        /\ (Val(MarkPrice(tick[positions[i].conId])) - positions[i].avgCost) * 100
              >= 5 * positions[i].avgCost
        /\ PMPlacedOn("tp1", positions[i].conId) = {}

NumericRows(tag) ==
  {i \in DOMAIN env.acct : env.acct[i].tag = tag /\ env.acct[i].kind = "num"}

StatedBuyingPower ==
  IF NumericRows("BuyingPower") # {}
    THEN env.acct[CHOOSE i \in NumericRows("BuyingPower") : TRUE].num
  ELSE IF NumericRows("AvailableFunds") # {}
    THEN env.acct[CHOOSE i \in NumericRows("AvailableFunds") : TRUE].num
  ELSE 0

\* C8: with B the numeric BuyingPower, else the numeric AvailableFunds, else
\* 0, a run() computes maxTradeRisk = B * per_trade_risk_pct and maxDayRisk =
\* B * per_day_risk_pct, both non-negative, and with B = 0 submits no BUY.
C8_BudgetCorrectness ==
  (last.valid /\ last.budgeted) =>
    /\ last.max_trade_risk = StatedBuyingPower * per_trade_risk_pct
    /\ last.max_day_risk = StatedBuyingPower * per_day_risk_pct
    /\ last.max_trade_risk >= 0
    /\ last.max_day_risk >= 0
    /\ (StatedBuyingPower = 0 => Placed("entry") = {})

IsEntryBuy(k, conid) ==
  /\ last.placed[k].tag = "entry"
  /\ PlacedTrade(k).conId = conid
  /\ PlacedTrade(k).order.action = "BUY"
  /\ PlacedTrade(k).order.totalQuantity = entry_qty

IsTrailAfter(k, conid) ==
  /\ k + 1 \in DOMAIN last.placed
  /\ PlacedTrade(k + 1).conId = conid
  /\ PlacedTrade(k + 1).order.action = "SELL"
  /\ PlacedTrade(k + 1).order.orderType = "TRAIL"
  /\ PlacedTrade(k + 1).order.totalQuantity = entry_qty
  /\ PlacedTrade(k + 1).order.trailingPercent = Some(trail_pct)

EntryGatesPass ==
  /\ last.valid
  /\ cfg.execute_trades_default
  /\ SignalGateAllows
  /\ NoGateDenies(GateConid)

\* C10, as stated: in a run() with no failed broker call where no entry gate
\* denies, one BUY of entry_qty is submitted and the next order submitted is
\* a SELL TRAIL for entry_qty at trail_pct on the same instrument; without an
\* entry the entry path submits no trailing stop.
C10_EntryThenTrail ==
  /\ (EntryGatesPass /\ last.hit = {}) =>
        \E k \in DOMAIN last.placed :
           /\ Placed("entry") = {k}
           /\ IsEntryBuy(k, GateConid)
           /\ IsTrailAfter(k, GateConid)
  /\ (Placed("entry") = {} => Placed("entry_trail") = {})

EntryPathSites == {"connect", "accountSummary", "liq_positions", "trades", "db",
                   "long_positions", "pre_px", "buy_px", "buy_place"}

EntryPathClean == ~\E a \in last.hit : a.site[1] \in EntryPathSites

TrailWorkingBefore(conid) ==
  \E i \in DOMAIN PreTrades :
     /\ PreTrades[i].conId = conid
     /\ PreTrades[i].status \in Working
     /\ PreTrades[i].order.action = "SELL"
     /\ PreTrades[i].order.orderType = "TRAIL"

\* C10, amended: when no entry gate denies and no broker call of the entry
\* path fails, one BUY of entry_qty is submitted; the next order submitted is
\* the SELL TRAIL for entry_qty at trail_pct unless a working SELL TRAIL
\* already exists on the instrument or the trailing stop's submission fails,
\* and then the entry path submits no trailing stop; without an entry the
\* entry path submits no trailing stop.
C10_EntryThenTrailUnlessPresent ==
  /\ (EntryGatesPass /\ EntryPathClean) =>
        \E k \in DOMAIN last.placed :
           /\ Placed("entry") = {k}
           /\ IsEntryBuy(k, GateConid)
           /\ IF TrailWorkingBefore(GateConid) \/ HitRaise("etrail_place")
                THEN Placed("entry_trail") = {}
              ELSE IsTrailAfter(k, GateConid) /\ Placed("entry_trail") = {k + 1}
  /\ (Placed("entry") = {} => Placed("entry_trail") = {})

C10_Witness ==
  /\ EntryGatesPass
  /\ EntryPathClean
  /\ \E k \in Placed("entry") : IsTrailAfter(k, GateConid) /\ Placed("entry_trail") = {k + 1}

(***************************************************************************)
(* Position management, as section 4.7 of the specification states it.     *)
(***************************************************************************)
\* the broker's trade list when the position-management pass of the latest
\* run() started: its own orders are the last ones the run submitted
PMOrders == {k \in DOMAIN last.placed : last.placed[k].tag \in PMTags}

TradesBeforePM == SubSeq(trades, 1, Len(trades) - Cardinality(PMOrders))

WorkingSellBeforePM(conid, types) ==
  \E j \in DOMAIN TradesBeforePM :
     /\ TradesBeforePM[j].conId = conid
     /\ TradesBeforePM[j].status \in Working
     /\ TradesBeforePM[j].order.action = "SELL"
     /\ TradesBeforePM[j].order.orderType \in types

PosMark(i) == MarkPrice(tick[positions[i].conId])

Manageable(i) ==
  /\ positions[i].position > 0
  /\ positions[i].avgCost > 0
  /\ ~IsNone(PosMark(i))

ReturnAtLeast(i, tenths) ==
  (Val(PosMark(i)) - positions[i].avgCost) * 1000 >= tenths * positions[i].avgCost

NeedsBreakeven(i) ==
  Manageable(i) /\ ReturnAtLeast(i, 5)
  /\ ~WorkingSellBeforePM(positions[i].conId, {"STP", "STOP"})

NeedsScaleout(i) ==
  Manageable(i) /\ ReturnAtLeast(i, 10) /\ positions[i].position >= 2
  /\ ~WorkingSellBeforePM(positions[i].conId, {"MKT", "LMT"})

NeedsTrail(i) ==
  Manageable(i) /\ ~WorkingSellBeforePM(positions[i].conId, {"TRAIL"})

\* the three checks were applied to position i: every protective order whose
\* condition holds was submitted
ProtectionSubmitted(i) ==
  /\ NeedsBreakeven(i) => PMPlacedOn("be", positions[i].conId) # {}
  /\ NeedsScaleout(i) => PMPlacedOn("tp1", positions[i].conId) # {}
  /\ NeedsTrail(i) => PMPlacedOn("trail", positions[i].conId) # {}

BuysPlaced == {k \in DOMAIN last.placed : PlacedTrade(k).order.action = "BUY"}

\* C11: with execute_trades_default = false no run() submits a BUY; with
\* allow_exits_when_killed = true a run() with no failed broker call still
\* submits, for every position, each protective SELL whose condition holds;
\* with both flags false a run() submits no order at all.
C11_EntryOverride ==
  last.valid =>
    /\ ~cfg.execute_trades_default => BuysPlaced = {}
    /\ (cfg = Cfg(FALSE, TRUE) /\ last.hit = {}) =>
          \A i \in DOMAIN positions : ProtectionSubmitted(i)
    /\ cfg = Cfg(FALSE, FALSE) => last.placed = << >>

\* the orders a run() outcome submitted, in submission order
OrdersOf(c) ==
  [k \in DOMAIN c.placed |->
     [conId |-> c.tr[c.placed[k].orderId].conId,
      order |-> c.tr[c.placed[k].orderId].order]]

EngineHasRun == eng # NewEngine

\* C12: whenever a run() is due, for every signal table and with no failing
\* broker call, the engine instance of the batch submits exactly the orders
\* that a freshly constructed engine instance would submit from the same
\* broker state.
C12_RestartEquivalence ==
  \A in \in DueRunInputs :
     in.anom = {} => OrdersOf(RunBody(in, eng)) = OrdersOf(RunBody(in, NewEngine))

\* C13: in every run() with no failed broker call in which exits are allowed
\* and dailyPnL <= -maxDayRisk, every position with quantity > 0 gets a
\* MARKET SELL of its full quantity from the kill switch, also when the
\* engine was constructed with execute_trades_default = false and
\* allow_exits_when_killed = true.
C13_KillSwitchUnderOverride ==
  (/\ last.valid
   /\ last.hit = {}
   /\ last.budgeted
   /\ last.allow_exits
   /\ KillSwitchBreached)
    => \A i \in LongPositions : LiquidationsOf(i) # {}

\* no broker call of the latest run() failed; a price snapshot without data
\* is admitted at the entry price gate only
OnlyPriceGateFailed ==
  \A a \in last.hit : a.kind = "nodata" /\ a.site[1] = "pre_px"

\* C14: every run() that gets past budgets and kill switch with no failed
\* broker call and with exits allowed reaches position management and
\* applies the three checks to every position with quantity > 0, wherever
\* the entry pipeline ended (no signal row, unresolvable instrument id, no
\* mark price, preflight risk too high).
C14_PositionManagementEveryCycle ==
  (/\ last.valid
   /\ last.budgeted
   /\ last.allow_exits
   /\ OnlyPriceGateFailed)
    => /\ last.pmRan
       /\ \A i \in DOMAIN positions : ProtectionSubmitted(i)

TrailWorkingAtStart(conid) ==
  \E j \in DOMAIN PreTrades :
     /\ PreTrades[j].conId = conid
     /\ PreTrades[j].status \in Working
     /\ PreTrades[j].order.action = "SELL"
     /\ PreTrades[j].order.orderType = "TRAIL"

TrailSubmittedFor(i) ==
  \E k \in DOMAIN last.placed :
     /\ PlacedTrade(k).conId = positions[i].conId
     /\ PlacedTrade(k).order.action = "SELL"
     /\ PlacedTrade(k).order.orderType = "TRAIL"
     /\ PlacedTrade(k).order.totalQuantity = positions[i].position

\* C15: in every run() with no failed broker call and with exits allowed,
\* every position with quantity > 0 (cost basis and mark price known) that
\* had no working SELL TRAILING-STOP when the run started has a SELL
\* TRAILING-STOP for its full quantity submitted by the end of the run.
C15_SelfHealingTrail ==
  (/\ last.valid
   /\ last.budgeted
   /\ last.allow_exits
   /\ last.hit = {})
    => \A i \in DOMAIN positions :
          (Manageable(i) /\ ~TrailWorkingAtStart(positions[i].conId))
             => TrailSubmittedFor(i)

\* C16: a run() whose symbol's most recent signal row has tradeSignal = false
\* submits no entry BUY, whatever the older rows of the symbol say.
C16_SignalGateLatestRow ==
  (/\ last.valid
   /\ last.sig # << >>
   /\ ~LatestRow(last.sig).trade_signal)
    => Placed("entry") = {}

(***************************************************************************)
(* Fills.  The broker executes working orders between the engine's reads   *)
(* of ib.positions() and ib.trades(); FillSpec adds that to the runs.      *)
(***************************************************************************)
SignedQty(o) == IF o.action = "BUY" THEN o.totalQuantity ELSE 0 - o.totalQuantity

\* the price an order of the instrument executes at
FillPrice(conid) ==
  IF IsNone(MarkPrice(tick[conid])) THEN 50000 ELSE Val(MarkPrice(tick[conid]))

\* ib.positions() after an execution of signed quantity d on the instrument
PositionsAfterFill(ps, conid, d) ==
  IF \E i \in DOMAIN ps : ps[i].conId = conid
    THEN [i \in DOMAIN ps |->
            IF ps[i].conId = conid
              THEN [ps[i] EXCEPT !.position = @ + d,
                                 !.avgCost = IF ps[i].position = 0
                                               THEN FillPrice(conid) ELSE @]
            ELSE ps[i]]
  ELSE Append(ps, Pos(conid, d, FillPrice(conid)))

\* the broker fills the working order j completely
Fill(j) ==
  /\ j \in DOMAIN trades
  /\ trades[j].status \in Working
  /\ trades' = [trades EXCEPT ![j].status = "Filled"]
  /\ positions' = PositionsAfterFill(positions, trades[j].conId, SignedQty(trades[j].order))
  /\ UNCHANGED << tick, env, now, cfg, eng, batch, last, prev, submitted,
                  runCalls, summaryLines, snap >>

HeldQty(ps, conid) ==
  IF \E i \in DOMAIN ps : ps[i].conId = conid
    THEN ps[CHOOSE i \in DOMAIN ps : ps[i].conId = conid].position
  ELSE 0

RECURSIVE WorkingSellQty(_, _, _)
WorkingSellQty(tr, conid, n) ==
  IF n = 0 THEN 0
  ELSE WorkingSellQty(tr, conid, n - 1)
       + IF /\ tr[n].conId = conid
            /\ tr[n].status \in Working
            /\ tr[n].order.action = "SELL"
           THEN tr[n].order.totalQuantity ELSE 0

SellsCovered(ps, tr) ==
  \A c \in Conids : WorkingSellQty(tr, c, Len(tr)) <= HeldQty(ps, c)

\* accounts whose working SELL orders are covered by the shares held
CoveredBrokers == {b \in InitBrokers : SellsCovered(b.positions, b.trades)}

InitFill ==
  /\ \E b \in CoveredBrokers : positions = b.positions /\ trades = b.trades
  /\ \E r \in BOOLEAN :
        /\ tick = [c \in Conids |-> TkUpFive]
        /\ env = Env(r, AcctOk, Some(0))
  /\ cfg = DefaultCfg
  /\ now = 0
  /\ submitted = [id \in DOMAIN trades |-> 0 - min_order_age_seconds]
  /\ eng = NewEngine
  /\ batch = NoBatch
  /\ last = NoRun
  /\ prev = NoPrev
  /\ runCalls = 0
  /\ summaryLines = 0
  /\ snap = NoSnap

NextFill ==
  \/ \E syms \in SymbolLists : StartBatch(syms)
  \/ \E in \in DueRunInputs : RunNext(in)
  \/ \E dt \in Elapsed : Pace(dt)
  \/ EndBatch
  \/ \E j \in DOMAIN trades : Fill(j)

FillSpec == InitFill /\ [][NextFill]_vars

\* C17: after any sequence of runs and fills of the engine's orders no
\* position quantity is negative, and on every instrument the total
\* quantity of working SELL orders does not exceed the quantity held.
C17_LongOnly ==
  /\ \A i \in DOMAIN positions : positions[i].position >= 0
  /\ SellsCovered(positions, trades)

\* C18: a run() that starts while some working entry order (BUY, not TRAIL)
\* was submitted less than min_order_age_seconds ago submits no entry BUY,
\* whichever batch or engine instance submitted that order.
C18_MinOrderAgeGate ==
  (last.valid /\ AgeDenies) => Placed("entry") = {}

\* the entry pipeline of the latest run() met no failure and no gate other
\* than the one under study stood in the way of the signalled entry
OtherGatesOpen ==
  /\ last.valid
  /\ last.hit = {}
  /\ cfg.execute_trades_default
  /\ SignalGateAllows
  /\ ~KillSwitchBreached
  /\ ~PriceDenies(GateConid)
  /\ ~RiskDenies(GateConid)

\* the working entry orders (BUY, not TRAIL) at the broker now
WorkingEntryOrdersNow ==
  {i \in DOMAIN trades : /\ trades[i].status \in Working
                         /\ trades[i].order.action = "BUY"
                         /\ trades[i].order.orderType # "TRAIL"}

\* C19: a run() that starts with max_open_orders or more working entry
\* orders (BUY, not TRAIL, all instruments) submits no entry BUY; and the
\* number of working entry orders at the broker never exceeds
\* max_open_orders.
C19_OpenEntryOrderCap ==
  /\ (last.valid /\ CapDenies) => BuysPlaced = {}
  /\ Cardinality(WorkingEntryOrdersNow) <= max_open_orders

C19_Witness ==
  /\ OtherGatesOpen
  /\ CapDenies
  /\ ~AgeDenies
  /\ ~AlreadyLong(GateConid)
  /\ Placed("entry") = {}
  /\ Cardinality(WorkingEntryOrdersNow) = max_open_orders

\* C20: a run() submits no BUY for an instrument that the positions snapshot
\* shows with quantity > 0, whatever the signal and the other gates say.
C20_AlreadyLongGate ==
  last.valid => \A k \in BuysPlaced : ~AlreadyLong(PlacedTrade(k).conId)

C20_Witness ==
  /\ OtherGatesOpen
  /\ ~CapDenies
  /\ ~AgeDenies
  /\ AlreadyLong(GateConid)
  /\ last.pmRan
  /\ BuysPlaced = {}

\* C21: every breakeven stop a run() submits is a SELL STOP and every
\* trailing stop (placed with the entry or by position management) is a SELL
\* TRAILING-STOP, in and out of the regular session, and each of them
\* carries outsideRth = true.
C21_ProtectiveOrderShape ==
  /\ \A k \in Placed("be") :
        /\ PlacedTrade(k).order.action = "SELL"
        /\ PlacedTrade(k).order.orderType = "STP"
        /\ PlacedTrade(k).order.outsideRth
  /\ \A k \in Placed("trail") \cup Placed("entry_trail") :
        /\ PlacedTrade(k).order.action = "SELL"
        /\ PlacedTrade(k).order.orderType = "TRAIL"
        /\ PlacedTrade(k).order.outsideRth

\* a liquidation order of position i submitted earlier is still working
LiquidationPending(i) ==
  \E j \in DOMAIN PreTrades :
     /\ PreTrades[j].conId = positions[i].conId
     /\ PreTrades[j].status \in Working
     /\ PreTrades[j].order.action = "SELL"
     /\ PreTrades[j].order.orderType = "MKT"
     /\ PreTrades[j].order.totalQuantity = positions[i].position

\* C22: a run() that re-evaluates the kill switch submits no liquidation SELL
\* for a position whose liquidation SELL of an earlier run is still working,
\* and none at all when no position has quantity > 0.
C22_KillSwitchIdempotent ==
  last.valid =>
    /\ \A i \in LongPositions : LiquidationPending(i) => LiquidationsOf(i) = {}
    /\ LongPositions = {} => Placed("liq") = {}

\* C23: in the summary of every run() the counters entry, be and tp1 equal
\* the numbers of entry BUY, breakeven SELL STOP and scale-out SELL orders
\* the run submitted (counters restart at zero in every run).
C23_CountersCountPlacements ==
  last.valid =>
    /\ last.stats.entry = Cardinality(Placed("entry"))
    /\ last.stats.be = Cardinality(Placed("be"))
    /\ last.stats.tp1 = Cardinality(Placed("tp1"))

\* a broker call raised while position i was being managed
PMFailedAt(i) ==
  \E a \in last.hit :
     a.kind = "raise" /\ a.site[1] \in PosRaiseSiteNames \ {"liq_place"} /\ a.site[2] = i

\* C24: when a price snapshot or an order submission raises while position
\* i is managed, run() still returns normally, the error counter is
\* incremented, and the three checks are applied to every other position
\* with quantity > 0 in the same run (their orders are submitted when exits
\* are allowed).
C24_PerPositionIsolation ==
  \A i \in DOMAIN positions :
     (last.valid /\ PMFailedAt(i)) =>
        /\ ~last.raised
        /\ last.pmRan
        /\ last.stats.errs >= 1
        /\ last.allow_exits => \A j \in DOMAIN positions \ {i} : ProtectionSubmitted(j)

C24_Witness ==
  /\ last.valid
  /\ PMFailedAt(1)
  /\ Len(positions) = 2
  /\ NeedsBreakeven(2) /\ NeedsScaleout(2) /\ NeedsTrail(2)
  /\ PMPlacedOn("be", positions[2].conId) # {}
  /\ PMPlacedOn("tp1", positions[2].conId) # {}
  /\ PMPlacedOn("trail", positions[2].conId) # {}

(***************************************************************************)
(* get_mark_price_snapshot on its own: MarkSpec draws the four ticker      *)
(* fields from absent (0), non-positive (-1) and positive and applies it.  *)
(***************************************************************************)
QuoteTickers ==
  {[bid |-> b, ask |-> a, last |-> l, close |-> c] :
     b \in {0, 0 - 1, 49990}, a \in {0, 0 - 1, 50010},
     l \in {0, 0 - 1, 50100}, c \in {0, 0 - 1, 49000}}

InitMark ==
  /\ positions = << >>
  /\ trades = << >>
  /\ \E t \in QuoteTickers : tick = [c \in Conids |-> t]
  /\ env = Env(TRUE, AcctOk, Some(0))
  /\ cfg = DefaultCfg
  /\ now = 0
  /\ submitted = << >>
  /\ eng = NewEngine
  /\ batch = NoBatch
  /\ last = NoRun
  /\ prev = NoPrev
  /\ runCalls = 0
  /\ summaryLines = 0
  /\ snap = NoSnap

\* get_mark_price_snapshot(contract) with the fields the broker filled in
Snapshot(conid) ==
  /\ snap' = [valid |-> TRUE, conId |-> conid, ticker |-> tick[conid],
              px |-> MarkPrice(tick[conid])]
  /\ UNCHANGED << positions, trades, tick, env, now, cfg, eng, batch, last, prev,
                  submitted, runCalls, summaryLines >>

NextMark == \E conid \in Conids : Snapshot(conid)

MarkSpec == InitMark /\ [][NextMark]_vars

\* C25: get_mark_price_snapshot returns the mid (bid+ask)/2 when bid and ask
\* are both positive; else last when positive; else close when positive;
\* else none (a value, not an exception), for every combination of absent,
\* non-positive and positive fields.
C25_MarkPriceResolution ==
  snap.valid =>
    LET t == snap.ticker
    IN /\ (t.bid > 0 /\ t.ask > 0) => snap.px = Some((t.bid + t.ask) \div 2)
       /\ (~(t.bid > 0 /\ t.ask > 0) /\ t.last > 0) => snap.px = Some(t.last)
       /\ (~(t.bid > 0 /\ t.ask > 0) /\ t.last <= 0 /\ t.close > 0)
             => snap.px = Some(t.close)
       /\ (~(t.bid > 0 /\ t.ask > 0) /\ t.last <= 0 /\ t.close <= 0)
             => snap.px = None

C25_Witness ==
  /\ snap.valid
  /\ snap.ticker.bid > 0 /\ snap.ticker.ask > 0
  /\ snap.ticker.last > 0 /\ snap.ticker.close > 0
  /\ snap.px = Some(50000)

\* the price snapshot taken at a call site of the latest run() came back empty
EmptySnapshot(name, i) == Anomaly(Site(name, i), "nodata") \in last.hit

\* position i could not be priced by position management
Unpriced(i) ==
  /\ positions[i].position > 0
  /\ positions[i].avgCost <= 0 \/ EmptySnapshot("pm_px", i)

PMOrdersOn(conid) ==
  PMPlacedOn("be", conid) \cup PMPlacedOn("tp1", conid) \cup PMPlacedOn("trail", conid)

PricedPositions == {i \in LongPositions : ~Unpriced(i)}

\* C26: outside regular hours an entry BUY or a scale-out SELL whose mark
\* price is unavailable is not submitted and skips_no_price is incremented;
\* for a position whose cost basis or mark price is unavailable position
\* management submits no order, and the counters be, tp1 and trail_ensure
\* count at most the other positions.
C26_NoActionWithoutPrices ==
  last.valid =>
    /\ (~env.rth /\ (EmptySnapshot("pre_px", 0) \/ EmptySnapshot("buy_px", 0)))
          => /\ BuysPlaced = {}
             /\ last.stats.skips_no_price >= 1
    /\ \A i \in DOMAIN positions :
          (~env.rth /\ EmptySnapshot("tp1_px", i))
             => /\ PMPlacedOn("tp1", positions[i].conId) = {}
                /\ last.stats.skips_no_price >= 1
    /\ \A i \in DOMAIN positions :
          (last.pmRan /\ Unpriced(i)) => PMOrdersOn(positions[i].conId) = {}
    /\ (last.pmRan /\ \E i \in DOMAIN positions : Unpriced(i))
          => /\ last.stats.be <= Cardinality(PricedPositions)
             /\ last.stats.tp1 <= Cardinality(PricedPositions)
             /\ last.stats.trail_ensure <= Cardinality(PricedPositions)

C26_Witness ==
  /\ last.valid
  /\ ~env.rth
  /\ last.pmRan
  /\ Len(positions) = 2
  /\ EmptySnapshot("pm_px", 2)
  /\ NeedsBreakeven(2) /\ NeedsScaleout(2) /\ NeedsTrail(2)
  /\ PMOrdersOn(positions[2].conId) = {}
  /\ PMOrdersOn(positions[1].conId) # {}

\* C27: a run() in which the measured dailyPnL is >= 0 submits no
\* kill-switch liquidation SELL and is not denied entries by the kill
\* switch, whatever the buying power is.
C27_NoLiquidationWithoutLoss ==
  (last.valid /\ ~IsNone(env.pnl) /\ Val(env.pnl) >= 0)
    => /\ Placed("liq") = {}
       /\ last.kill # "deny"

\* an entry BUY of the instrument was working when the latest run() started
EntryPendingOn(conid) == \E i \in WorkingEntryOrders : PreTrades[i].conId = conid

\* C28: no run() submits an entry BUY for an instrument that already has a
\* working, unfilled entry BUY, so that an instrument never gets a second
\* pending entry.
C28_OnePendingEntryPerInstrument ==
  last.valid => \A k \in Placed("entry") : ~EntryPendingOn(PlacedTrade(k).conId)

\* the tag of the orders placed at a placeOrder call site
TagOfSite(name) ==
  CASE name = "buy_place" -> "entry"
    [] name = "etrail_place" -> "entry_trail"
    [] name = "liq_place" -> "liq"
    [] name = "be_place" -> "be"
    [] name = "tp1_place" -> "tp1"
    [] name = "trail_place" -> "trail"
    [] OTHER -> ""

\* the orders of the latest run() whose order id could not be read back
UnreadableAt(a) ==
  {k \in Placed(TagOfSite(a.site[1])) :
     a.site[2] = 0 \/ PlacedTrade(k).conId = positions[a.site[2]].conId}

Unreadable ==
  UNION {UnreadableAt(a) : a \in {b \in last.hit : b.kind = "noid"}}

SubmitTimesAfterRun ==
  last.valid =>
    /\ \A k \in DOMAIN last.placed \ Unreadable :
          /\ last.placed[k].orderId \in DOMAIN eng.order_submit_time
          /\ eng.order_submit_time[last.placed[k].orderId]
               = submitted[last.placed[k].orderId]
    /\ \A a \in last.hit :
          a.kind = "noid" =>
             /\ UnreadableAt(a) # {}
             /\ \A k \in UnreadableAt(a) :
                   last.placed[k].orderId \notin DOMAIN eng.order_submit_time
             /\ ~last.raised
             /\ last.pmRan

SubmitTimesKept ==
  batch.active =>
    \A id \in DOMAIN eng.order_submit_time :
       /\ id \in DOMAIN eng'.order_submit_time
       /\ eng'.order_submit_time[id] = eng.order_submit_time[id]

\* C29: after a run() every order it submitted whose id could be read back
\* has its submit time in order_submit_time; an order whose id could not be
\* read back is at the broker, has no entry, and the run went on to the end;
\* and no step of an engine instance removes or rewrites an entry.
C29_SubmitTimeTracking == [](SubmitTimesAfterRun) /\ [][SubmitTimesKept]_vars

C29_Witness ==
  /\ last.valid
  /\ runCalls = 2
  /\ Len(batch.symbols) = 2
  /\ \E a \in last.hit : a.kind = "noid" /\ a.site[1] = "buy_place"
  /\ Placed("entry") # {} /\ Placed("entry_trail") # {}
  /\ \E id \in DOMAIN eng.order_submit_time : submitted[id] < now

\* C30: an engine instance obtains the account-PnL subscription from the
\* broker at most once; it holds the handle exactly when it has obtained
\* it, and every later daily-PnL read requests no new subscription.
C30_SinglePnLSubscription ==
  /\ eng.pnl_reqs <= 1
  /\ eng.pnl_sub <=> eng.pnl_reqs = 1

C30_Witness ==
  /\ runCalls = 2
  /\ Len(batch.symbols) = 2
  /\ cfg.execute_trades_default
  /\ prev.valid /\ prev.clean
  /\ last.valid /\ last.hit = {}
  /\ last.kill # "not_evaluated"
  /\ eng.pnl_reqs = 1

====
